---- MODULE Spec2Model ----
(***************************************************************************)
(* The preprocessing pipeline of scripts/preprocess_data.py as a state     *)
(* machine: one action per stage of the script (and one per iteration of   *)
(* its two loops), over the raw input files the script reads.              *)
(*                                                                         *)
(* Geometry is modelled on one row of raster cells.  The axis is measured  *)
(* in half cells: cell c spans the coordinates 2c .. 2c+2 and has its      *)
(* centre at 2c+1.  A polygon is the ring of its vertices lo, lo+1, ...,hi *)
(* (a vertex on every coordinate it passes) and covers the half-cell       *)
(* segments lo .. hi-1, segment h being the stretch from h to h+1.  A      *)
(* polygon that covers only one half of a cell stops short of the cell's   *)
(* centre.  A point lies at a coordinate.  All layers are taken to be in   *)
(* one common reference frame, so the to_crs calls are not modelled.       *)
(***************************************************************************)
EXTENDS Integers, Sequences, FiniteSets, TLC

\* ------------------------------------------------------------------ bounds
NumCells == 2
MaxWards == 2
MaxTrees == 1
MaxSchools == 1

\* len(TREE_FILES)
NumTreeFiles == 3

VARIABLES
    wardsFile, treeFiles, schoolsFile, demFile,
    pc, err,
    wards, tf, tree_layers, trees, schools,
    dem_clipped, zi, avg_elevs,
    trees_with_ward, schools_with_ward,
    tree_counts, ward_tree_dict, school_count_dict,
    wards_simpl, written

inputs == <<wardsFile, treeFiles, schoolsFile, demFile>>
vars == <<wardsFile, treeFiles, schoolsFile, demFile, pc, err, wards, tf,
          tree_layers, trees, schools, dem_clipped, zi, avg_elevs,
          trees_with_ward, schools_with_ward, tree_counts, ward_tree_dict,
          school_count_dict, wards_simpl, written>>

\* ------------------------------------------------------------ small helpers
SeqsUpTo(S, n) == UNION {[1..k -> S] : k \in 0..n}

SetMin(S) == CHOOSE x \in S : \A y \in S : x <= y

SetMax(S) == CHOOSE x \in S : \A y \in S : y <= x

RECURSIVE SumSeq(_)
SumSeq(s) == IF s = <<>> THEN 0 ELSE Head(s) + SumSeq(Tail(s))

RECURSIVE Concat(_)
Concat(ss) == IF ss = <<>> THEN <<>> ELSE Head(ss) \o Concat(Tail(ss))

\* ------------------------------------------------------------ python values
\* A string is the sequence of its characters.
StrVal(s) == [kind |-> "str", s |-> s]

NoneVal == [kind |-> "none", s |-> <<>>]

NaNVal == [kind |-> "nan", s |-> <<>>]

\* The value of a column the file does not have.
AbsentVal == [kind |-> "absent", s |-> <<>>]

Str_unknown == <<"u", "n", "k", "n", "o", "w", "n">>

\* Series.astype(str) on an object column: str() of every element, missing
\* values included (str(None), str(nan)).
AsTypeStr(v) ==
    CASE v.kind = "str" -> v.s
      [] v.kind = "none" -> <<"N", "o", "n", "e">>
      [] v.kind = "nan" -> <<"n", "a", "n">>

RECURSIVE LStrip(_)
LStrip(s) == IF s # <<>> /\ Head(s) = " " THEN LStrip(Tail(s)) ELSE s

RECURSIVE RStrip(_)
RStrip(s) ==
    IF s # <<>> /\ s[Len(s)] = " " THEN RStrip(SubSeq(s, 1, Len(s) - 1)) ELSE s

\* Series.str.strip()
Strip(s) == RStrip(LStrip(s))

\* Code points of the characters the model's strings use.
CharCode(c) ==
    CASE c = " " -> 32 [] c = "N" -> 78 [] c = "a" -> 97 [] c = "b" -> 98
      [] c = "e" -> 101 [] c = "k" -> 107 [] c = "n" -> 110 [] c = "o" -> 111
      [] c = "u" -> 117 [] c = "w" -> 119

\* Python's order on str.
RECURSIVE StrLess(_, _)
StrLess(s, t) ==
    IF t = <<>> THEN FALSE
    ELSE IF s = <<>> THEN TRUE
    ELSE IF Head(s) # Head(t) THEN CharCode(Head(s)) < CharCode(Head(t))
    ELSE StrLess(Tail(s), Tail(t))

\* A float: None, or the exact quotient num/den.
NoFloat == [kind |-> "none", num |-> 0, den |-> 1]

Float(n, d) == [kind |-> "float", num |-> n, den |-> d]

\* ------------------------------------------------------------------ geometry
Coords == 0..(2 * NumCells)

Ring(a, b) == [i \in 1..(b - a + 1) |-> a + i - 1]

Polygon(r) == [type |-> "Polygon", coords |-> r]

Point(p) == [type |-> "Point", coords |-> <<p>>]

MultiPoint(ps) == [type |-> "MultiPoint", coords |-> ps]

\* The half-cell segments a polygon covers; none for an empty geometry.
Segs(g) ==
    IF g.type # "Polygon" \/ Len(g.coords) < 2 THEN {}
    ELSE g.coords[1]..(g.coords[Len(g.coords)] - 1)

\* A coordinate in the interior of a region: the segments on both sides of it
\* belong to the region.  A coordinate on the boundary is not in the interior.
Interior(p, segs) == (p - 1) \in segs /\ p \in segs

\* shapely's within for a point geometry a and a polygon b: every point of a
\* in the interior of b.
Within(a, b) ==
    /\ a.type \in {"Point", "MultiPoint"}
    /\ a.coords # <<>>
    /\ \A i \in DOMAIN a.coords : Interior(a.coords[i], Segs(b))

\* shapely's intersects for a point geometry and a polygon: some point of a in
\* b or on its boundary.
Intersects(a, b) ==
    /\ a.type \in {"Point", "MultiPoint"}
    /\ \E i \in DOMAIN a.coords :
           (a.coords[i] - 1) \in Segs(b) \/ a.coords[i] \in Segs(b)

\* unary_union of polygons, as the region it covers.
UnaryUnion(gs) == UNION {Segs(gs[i]) : i \in DOMAIN gs}

\* geometry.simplify(SIMPLIFY_TOLERANCE, preserve_topology=True): the end
\* vertices stay; a vertex between them lies on the chord (distance 0, within
\* the tolerance) and is dropped.
Simplify(g) ==
    IF g.type # "Polygon" \/ Len(g.coords) < 2 THEN g
    ELSE [g EXCEPT !.coords = <<g.coords[1], g.coords[Len(g.coords)]>>]

\* -------------------------------------------------------------------- raster
Undeclared == [declared |-> FALSE, v |-> 0]

Declared(v) == [declared |-> TRUE, v |-> v]

Raster(nd, origin, band) == [nodata |-> nd, origin |-> origin, band |-> band]

NoRaster == Raster(Undeclared, 0, <<>>)

RasterCells(src) == src.origin..(src.origin + Len(src.band) - 1)

CellValue(src, c) == src.band[c - src.origin + 1]

\* rasterio.mask.mask: the value masked cells are filled with.
FillValue(src, nodata) ==
    IF nodata.declared THEN nodata.v
    ELSE IF src.nodata.declared THEN src.nodata.v ELSE 0

\* crop=True: the cells of the raster the bounding box of the shapes meets.
WindowCells(src, segs) ==
    IF segs = {} THEN {}
    ELSE {c \in RasterCells(src) :
              2 * c <= SetMax(segs) /\ 2 * c + 1 >= SetMin(segs)}

\* mask raises ValueError when the shapes do not overlap the raster.
MaskRaises(src, segs) == WindowCells(src, segs) = {}

\* all_touched=False: a cell is inside the shapes when its centre is.
Covered(c, segs) == Interior(2 * c + 1, segs)

\* mask(src, shapes, crop=True, nodata=nodata), filled: the window, with every
\* cell outside the shapes, and every cell the dataset's own nodata masks,
\* set to the fill value.
MaskOut(src, segs, nodata) ==
    LET win == WindowCells(src, segs)
        o == SetMin(win)
    IN  Raster(src.nodata, o,
               [i \in 1..Cardinality(win) |->
                   LET c == o + i - 1
                       v == CellValue(src, c)
                   IN  IF Covered(c, segs)
                          /\ ~(src.nodata.declared /\ v = src.nodata.v)
                       THEN v
                       ELSE FillValue(src, nodata)])

\* band[band == nodata] = nan, applied only when nodata is not None; then
\* float(np.nanmean(band)), None when the mean is nan.
NanMean(band, nodata) ==
    LET kept == {i \in DOMAIN band : ~(nodata.declared /\ band[i] = nodata.v)}
    IN  IF kept = {} THEN NoFloat
        ELSE Float(SumSeq([i \in 1..Len(band) |->
                              IF i \in kept THEN band[i] ELSE 0]),
                   Cardinality(kept))

\* One iteration of the per-ward loop: the value stored in avg_elevs.
WardMean(src, g) ==
    IF MaskRaises(src, Segs(g)) THEN NoFloat
    ELSE NanMean(MaskOut(src, Segs(g), src.nodata).band, src.nodata)

\* --------------------------------------------------------------- 1) wards
\* KGISWardNo is carried in halves (3 stands for 1.5); astype(int) truncates.
AsTypeInt(h) == h \div 2

Digit(d) ==
    CASE d = 0 -> "0" [] d = 1 -> "1" [] d = 2 -> "2" [] d = 3 -> "3"
      [] d = 4 -> "4" [] d = 5 -> "5" [] d = 6 -> "6" [] d = 7 -> "7"
      [] d = 8 -> "8" [] d = 9 -> "9"

\* str() of a non-negative integer.
RECURSIVE IntStr(_)
IntStr(n) == IF n < 10 THEN <<Digit(n)>> ELSE IntStr(n \div 10) \o <<Digit(n % 10)>>

WardId(file, i) ==
    IF "KGISWardNo" \in file.columns
    THEN AsTypeInt(file.features[i].KGISWardNo)
    ELSE i

WardName(file, i) ==
    IF "KGISWardName" \in file.columns
    THEN file.features[i].KGISWardName
    ELSE <<"W", "a", "r", "d", " ">> \o IntStr(WardId(file, i))

ReadWards(file) ==
    [i \in 1..Len(file.features) |->
        [geometry |-> file.features[i].geometry,
         ward_id |-> WardId(file, i),
         ward_name |-> WardName(file, i)]]

NoErr == [exc |-> "", at |-> ""]

Abort(exc, at) == pc' = "aborted" /\ err' = [exc |-> exc, at |-> at]

LoadWards ==
    /\ pc = "wards"
    /\ IF wardsFile.status # "ok"
       THEN /\ Abort("DataSourceError", "wards")
            /\ UNCHANGED wards
       ELSE /\ wards' = ReadWards(wardsFile)
            /\ pc' = "trees"
            /\ UNCHANGED err
    /\ UNCHANGED <<inputs, tf, tree_layers, trees, schools, dem_clipped, zi,
                   avg_elevs, trees_with_ward, schools_with_ward, tree_counts,
                   ward_tree_dict, school_count_dict, wards_simpl, written>>

\* --------------------------------------------------------------- 2) trees
NormalizeTreeType(file, feat) ==
    IF "TreeName" \in file.columns THEN Strip(AsTypeStr(feat.TreeName))
    ELSE IF "tree_type" \in file.columns THEN Strip(AsTypeStr(feat.tree_type))
    ELSE Str_unknown

\* One tree file as read and normalized; src is the feature's place in the
\* raw files (file, row), kept to tell the rows apart.
ReadTreeLayer(f) ==
    LET file == treeFiles[f]
    IN  [i \in 1..Len(file.features) |->
            [geometry |-> file.features[i].geometry,
             tree_type |-> NormalizeTreeType(file, file.features[i]),
             src |-> <<f, i>>]]

PrependLayer(layers, gdf) == <<gdf>> \o layers

\* tree_layers.append(gdf)
AppendLayer(layers, gdf) == Append(layers, gdf)

\* One iteration of the loop over TREE_FILES: a missing file and a file whose
\* read raises are both passed over.
LoadTreeFile ==
    /\ pc = "trees"
    /\ tf <= NumTreeFiles
    /\ tree_layers' =
           IF treeFiles[tf].status = "ok"
           THEN AppendLayer(tree_layers, ReadTreeLayer(tf))
           ELSE tree_layers
    /\ tf' = tf + 1
    /\ pc' = IF tf = NumTreeFiles THEN "concat" ELSE "trees"
    /\ UNCHANGED <<inputs, err, wards, trees, schools, dem_clipped, zi, avg_elevs,
                   trees_with_ward, schools_with_ward, tree_counts,
                   ward_tree_dict, school_count_dict, wards_simpl, written>>

ConcatTrees ==
    /\ pc = "concat"
    /\ IF tree_layers = <<>>
       THEN /\ Abort("FileNotFoundError", "trees")
            /\ UNCHANGED trees
       ELSE /\ trees' = Concat(tree_layers)
            /\ pc' = "schools"
            /\ UNCHANGED err
    /\ UNCHANGED <<inputs, wards, tf, tree_layers, schools, dem_clipped, zi,
                   avg_elevs, trees_with_ward, schools_with_ward, tree_counts,
                   ward_tree_dict, school_count_dict, wards_simpl, written>>

\* ------------------------------------------------------------- 3) schools
IsPointType(row) == row.geometry.type \in {"Point", "MultiPoint"}

ReadSchools(file) ==
    SelectSeq([i \in 1..Len(file.features) |->
                  [geometry |-> file.features[i].geometry, src |-> i]],
              IsPointType)

LoadSchools ==
    /\ pc = "schools"
    /\ IF schoolsFile.status # "ok"
       THEN /\ Abort("DataSourceError", "schools")
            /\ UNCHANGED schools
       ELSE /\ schools' = ReadSchools(schoolsFile)
            /\ pc' = "clip"
            /\ UNCHANGED err
    /\ UNCHANGED <<inputs, wards, tf, tree_layers, trees, dem_clipped, zi,
                   avg_elevs, trees_with_ward, schools_with_ward, tree_counts,
                   ward_tree_dict, school_count_dict, wards_simpl, written>>

\* ------------------------------------------------------------ 4) clip DEM
\* The clip mask: the union of the ward geometries (buffer(0) leaves the
\* model's polygons, all valid, as they are).
ClipShape(ws) == UnaryUnion([i \in DOMAIN ws |-> ws[i].geometry])

ClipDEM ==
    /\ pc = "clip"
    /\ IF demFile.status # "ok"
       THEN /\ Abort("RasterioIOError", "clip")
            /\ UNCHANGED dem_clipped
       ELSE IF MaskRaises(demFile.raster, ClipShape(wards))
       THEN /\ Abort("ValueError", "clip")
            /\ UNCHANGED dem_clipped
       ELSE /\ dem_clipped' = MaskOut(demFile.raster, ClipShape(wards),
                                      demFile.raster.nodata)
            /\ pc' = IF wards = <<>> THEN "joins" ELSE "zonal"
            /\ UNCHANGED err
    /\ UNCHANGED <<inputs, wards, tf, tree_layers, trees, schools, zi, avg_elevs,
                   trees_with_ward, schools_with_ward, tree_counts,
                   ward_tree_dict, school_count_dict, wards_simpl, written>>

\* ------------------------------------------------- 5) avg elevation per ward
\* One iteration of the loop over the wards; the bare except stores None.
ZonalWard ==
    /\ pc = "zonal"
    /\ zi <= Len(wards)
    /\ avg_elevs' = (wards[zi].ward_id :> WardMean(dem_clipped, wards[zi].geometry))
                        @@ avg_elevs
    /\ zi' = zi + 1
    /\ pc' = IF zi = Len(wards) THEN "joins" ELSE "zonal"
    /\ UNCHANGED <<inputs, err, wards, tf, tree_layers, trees, schools,
                   dem_clipped, trees_with_ward, schools_with_ward, tree_counts,
                   ward_tree_dict, school_count_dict, wards_simpl, written>>

\* ---------------------------------------------------------- 6) spatial joins
\* ward_id of a joined row: NaN for a point no ward matched.
NaNId == [isnan |-> TRUE, v |-> 0]

NumId(n) == [isnan |-> FALSE, v |-> n]

SjoinIntersects(a, b) == Intersects(a, b)

\* predicate="within"
SjoinPredicate(a, b) == Within(a, b)

\* The wards (by position) whose polygon the geometry g matches.
Matches(g, ws) ==
    LET Hit(j) == SjoinPredicate(g, ws[j].geometry)
    IN  SelectSeq([j \in 1..Len(ws) |-> j], Hit)

\* gpd.sjoin(left, wards, how="left"): a row per matching ward, and one row
\* with no ward for a point that matches none.
Sjoin(left, ws) ==
    Concat([k \in 1..Len(left) |->
        LET m == Matches(left[k].geometry, ws)
        IN  IF m = <<>>
            THEN <<[left |-> k, row |-> left[k], ward_id |-> NaNId]>>
            ELSE [j \in 1..Len(m) |->
                     [left |-> k, row |-> left[k],
                      ward_id |-> NumId(ws[m[j]].ward_id)]]])

SpatialJoins ==
    /\ pc = "joins"
    /\ trees_with_ward' = Sjoin(trees, wards)
    /\ schools_with_ward' = Sjoin(schools, wards)
    /\ pc' = "aggregate"
    /\ UNCHANGED <<inputs, err, wards, tf, tree_layers, trees, schools,
                   dem_clipped, zi, avg_elevs, tree_counts, ward_tree_dict,
                   school_count_dict, wards_simpl, written>>

\* ----------------------------------------------------------- 7) aggregations
HasWard(r) == ~r.ward_id.isnan

\* dropna(subset=["ward_id"])
DropNa(rows) == SelectSeq(rows, HasWard)

KeyLess(a, b) == a[1] < b[1] \/ (a[1] = b[1] /\ StrLess(a[2], b[2]))

\* groupby sorts its keys.
RECURSIVE SortKeys(_)
SortKeys(S) ==
    IF S = {} THEN <<>>
    ELSE LET m == CHOOSE x \in S : \A y \in S \ {x} : KeyLess(x, y)
         IN  <<m>> \o SortKeys(S \ {m})

\* groupby(["ward_id","tree_type"]).size().reset_index(name="count")
TreeCounts(rows) ==
    LET kept == DropNa(rows)
        ks == SortKeys({<<kept[n].ward_id.v, kept[n].row.tree_type>> :
                            n \in DOMAIN kept})
    IN  [i \in 1..Len(ks) |->
            [ward_id |-> ks[i][1],
             tree_type |-> ks[i][2],
             count |-> Cardinality({n \in DOMAIN kept :
                           /\ kept[n].ward_id.v = ks[i][1]
                           /\ kept[n].row.tree_type = ks[i][2]})]]

\* A python dict is the sequence of its items, in insertion order.
DictSet(d, k, v) ==
    IF \E i \in DOMAIN d : d[i][1] = k
    THEN [i \in DOMAIN d |-> IF d[i][1] = k THEN <<k, v>> ELSE d[i]]
    ELSE Append(d, <<k, v>>)

\* dict(pairs): a later pair replaces an earlier one with the same key.
RECURSIVE DictFromPairs(_)
DictFromPairs(ps) ==
    IF ps = <<>> THEN <<>>
    ELSE DictSet(DictFromPairs(SubSeq(ps, 1, Len(ps) - 1)),
                 ps[Len(ps)][1], ps[Len(ps)][2])

GroupRows(tc, wid) ==
    LET InGroup(r) == r.ward_id = wid
    IN  SelectSeq(tc, InGroup)

WardTreeDictFirstRow(tc) ==
    [wid \in {tc[i].ward_id : i \in DOMAIN tc} |->
        LET g == GroupRows(tc, wid)
        IN  <<<<g[1].tree_type, g[1].count>>>>]

\* {wid: dict(zip(g["tree_type"], g["count"])) for wid, g in groupby("ward_id")}
WardTreeDict(tc) ==
    [wid \in {tc[i].ward_id : i \in DOMAIN tc} |->
        LET g == GroupRows(tc, wid)
        IN  DictFromPairs([i \in 1..Len(g) |-> <<g[i].tree_type, g[i].count>>])]

\* groupby("ward_id").size() of the matched school rows, as a dict.
SchoolCountDict(rows) ==
    LET kept == DropNa(rows)
    IN  [wid \in {kept[n].ward_id.v : n \in DOMAIN kept} |->
            Cardinality({n \in DOMAIN kept : kept[n].ward_id.v = wid})]

Aggregate ==
    /\ pc = "aggregate"
    /\ tree_counts' = TreeCounts(trees_with_ward)
    /\ ward_tree_dict' = WardTreeDict(tree_counts')
    /\ school_count_dict' = SchoolCountDict(schools_with_ward)
    /\ pc' = "attach"
    /\ UNCHANGED <<inputs, err, wards, tf, tree_layers, trees, schools,
                   dem_clipped, zi, avg_elevs, trees_with_ward,
                   schools_with_ward, wards_simpl, written>>

\* ------------------------------------------------------- 8) attach and export
DigitValue(c) == CHOOSE d \in 0..9 : Digit(d) = c

RECURSIVE ParseInt(_)
ParseInt(s) ==
    IF Len(s) = 1 THEN DigitValue(s[1])
    ELSE 10 * ParseInt(SubSeq(s, 1, Len(s) - 1)) + DigitValue(s[Len(s)])

Quote(s) == <<"\"">> \o s \o <<"\"">>

Unquote(s) == SubSeq(s, 2, Len(s) - 1)

\* json.dumps of a dict of str to int: the members of the object, each a quoted
\* key and the decimal digits of its value.
JsonDumps(d) ==
    [i \in DOMAIN d |-> [key |-> Quote(d[i][1]), value |-> IntStr(d[i][2])]]

\* json.loads of such a text.
JsonLoads(text) ==
    DictFromPairs([i \in DOMAIN text |->
                      <<Unquote(text[i].key), ParseInt(text[i].value)>>])

DictSum(d) == SumSeq([i \in DOMAIN d |-> d[i][2]])

\* Series.map(dict) followed by fillna(0).astype(int)
NumSchools(wid, counts) == IF wid \in DOMAIN counts THEN counts[wid] ELSE 0

\* Series.map(avg_elevs)
AvgElev(wid, elevs) == IF wid \in DOMAIN elevs THEN elevs[wid] ELSE NoFloat

\* json.dumps(ward_tree_dict.get(wid, {}))
TreeDist(wid, dicts) ==
    JsonDumps(IF wid \in DOMAIN dicts THEN dicts[wid] ELSE <<>>)

AttachStats ==
    /\ pc = "attach"
    /\ wards' = [i \in DOMAIN wards |->
                    [geometry |-> wards[i].geometry,
                     ward_id |-> wards[i].ward_id,
                     ward_name |-> wards[i].ward_name,
                     num_schools |-> NumSchools(wards[i].ward_id, school_count_dict),
                     avg_elev |-> AvgElev(wards[i].ward_id, avg_elevs),
                     tree_dist |-> TreeDist(wards[i].ward_id, ward_tree_dict)]]
    /\ pc' = "simplify"
    /\ UNCHANGED <<inputs, err, tf, tree_layers, trees, schools, dem_clipped, zi,
                   avg_elevs, trees_with_ward, schools_with_ward, tree_counts,
                   ward_tree_dict, school_count_dict, wards_simpl, written>>

\* wards_simpl["geometry"] = wards_simpl.geometry.simplify(...)
SimplifyFrame(ws) ==
    [i \in DOMAIN ws |-> [ws[i] EXCEPT !.geometry = Simplify(@)]]

WardsSimplifiedInPlace(ws) == SimplifyFrame(ws)

\* wards_simpl is wards.copy(): assigning its geometry column leaves the
\* frame wards as it was.
WardsAfterSimplify(ws) == ws

SimplifyWards ==
    /\ pc = "simplify"
    /\ wards_simpl' = SimplifyFrame(wards)
    /\ wards' = WardsAfterSimplify(wards)
    /\ pc' = "write"
    /\ UNCHANGED <<inputs, err, tf, tree_layers, trees, schools, dem_clipped, zi,
                   avg_elevs, trees_with_ward, schools_with_ward, tree_counts,
                   ward_tree_dict, school_count_dict, written>>

NothingWritten ==
    [done |-> FALSE, wards_geojson |-> <<>>, trees_geojson |-> <<>>,
     schools_geojson |-> <<>>, ward_stats_csv |-> <<>>,
     ward_tree_counts_csv |-> <<>>]

\* wards_simpl[["ward_id","ward_name","num_schools","avg_elev"]]
WardStats(ws) ==
    [i \in DOMAIN ws |->
        [ward_id |-> ws[i].ward_id, ward_name |-> ws[i].ward_name,
         num_schools |-> ws[i].num_schools, avg_elev |-> ws[i].avg_elev]]

WriteOutputs ==
    /\ pc = "write"
    /\ written' = [done |-> TRUE,
                   wards_geojson |-> wards_simpl,
                   trees_geojson |-> trees,
                   schools_geojson |-> schools,
                   ward_stats_csv |-> WardStats(wards_simpl),
                   ward_tree_counts_csv |-> tree_counts]
    /\ pc' = "done"
    /\ UNCHANGED <<inputs, err, wards, tf, tree_layers, trees, schools,
                   dem_clipped, zi, avg_elevs, trees_with_ward,
                   schools_with_ward, tree_counts, ward_tree_dict,
                   school_count_dict, wards_simpl>>

\* ------------------------------------------------------------ the raw files
File(status, columns, features) ==
    [status |-> status, columns |-> columns, features |-> features]

WardFeature(g, no, name) ==
    [geometry |-> g, KGISWardNo |-> no, KGISWardName |-> name]

TreeFeature(p, name, type) ==
    [geometry |-> Point(p), TreeName |-> name, tree_type |-> type]

DemFile(status, raster) == [status |-> status, raster |-> raster]

Run(w, t, s, d) == [w |-> w, t |-> t, s |-> s, d |-> d]

\* Every polygon of the axis, and the empty geometry.
Geoms ==
    {Polygon(Ring(q[1], q[2])) : q \in {r \in Coords \X Coords : r[1] < r[2]}}
        \cup {Polygon(<<>>)}

\* A boundary file without the KGIS columns.
PlainWards(gs) == File("ok", {}, [i \in DOMAIN gs |-> WardFeature(gs[i], 0, <<>>)])

\* Two wards that overlap.
DefaultWardsFile ==
    PlainWards(<<Polygon(Ring(0, 3)), Polygon(Ring(1, 2 * NumCells))>>)

MissingFile == File("missing", {}, <<>>)

CorruptFile == File("corrupt", {}, <<>>)

\* One tree on every coordinate, of two species in turn.
DefaultTreeFiles ==
    <<File("ok", {"TreeName"},
           [i \in 1..(2 * NumCells + 1) |->
               TreeFeature(i - 1,
                           StrVal(IF i % 2 = 0 THEN <<"a">> ELSE <<"b">>),
                           AbsentVal)]),
      MissingFile, MissingFile>>

\* One school on every coordinate, a two-point school and a polygon.
DefaultSchoolsFile ==
    File("ok", {},
         [i \in 1..(2 * NumCells + 1) |-> [geometry |-> Point(i - 1)]]
             \o <<[geometry |-> MultiPoint(<<1, 2>>)],
                  [geometry |-> Polygon(Ring(0, 2))]>>)

DefaultDemFile ==
    DemFile("ok", Raster(Declared(-9), 0, [c \in 1..NumCells |-> 10 * c]))

\* Ward geometries of every kind, against points on every coordinate.
GeometryRuns ==
    {Run(PlainWards(gs), DefaultTreeFiles, DefaultSchoolsFile, DefaultDemFile) :
        gs \in {<<>>} \cup {<<g>> : g \in Geoms}
                 \cup {<<g, h>> : g \in Geoms, h \in Geoms}}

\* KGISWardNo in halves: 1, 1.5 and 2.
WardNos == {2, 3, 4}

IdFeatures(cols) ==
    {WardFeature(g, no, name) :
        g \in {Polygon(Ring(0, 2)), Polygon(Ring(0, 2 * NumCells))},
        no \in IF "KGISWardNo" \in cols THEN WardNos ELSE {0},
        name \in IF "KGISWardName" \in cols THEN {<<"a">>} ELSE {<<>>}}

\* Boundary files with the KGIS columns.
IdRuns ==
    UNION {{Run(File("ok", cols, fs), DefaultTreeFiles, DefaultSchoolsFile,
                DefaultDemFile) :
               fs \in SeqsUpTo(IdFeatures(cols), MaxWards) \ {<<>>}} :
           cols \in (SUBSET {"KGISWardNo", "KGISWardName"}) \ {{}}}

CellValues == {-9, 10, 30}

Rasters ==
    {Raster(nd, 0, band) :
        nd \in {Undeclared, Declared(-9)},
        band \in UNION {[1..w -> CellValues] : w \in 1..NumCells}}

\* Rasters of every kind under one ward, and two rasters with a hole under
\* every ward beside a second ward.
RasterRuns ==
    {Run(PlainWards(<<g>>), DefaultTreeFiles, DefaultSchoolsFile, d) :
        g \in Geoms,
        d \in {DemFile("ok", r) : r \in Rasters}
                 \cup {DemFile("corrupt", NoRaster)}}
    \cup
    {Run(PlainWards(<<g, h>>), DefaultTreeFiles, DefaultSchoolsFile,
         DemFile("ok", Raster(nd, 0, [c \in 1..NumCells |->
                                         IF c = 1 THEN -9 ELSE 10 * c]))) :
        g \in Geoms,
        h \in {Polygon(Ring(0, 2)), Polygon(Ring(2, 2 * NumCells))},
        nd \in {Undeclared, Declared(-9)}}

TreeFileChoices ==
    {MissingFile, CorruptFile}
        \cup {File("ok", {"TreeName"}, fs) :
                 fs \in SeqsUpTo({TreeFeature(p, StrVal(n), AbsentVal) :
                                     p \in {1}, n \in {<<"a">>, <<"b">>}},
                                 MaxTrees)}

\* Every mix of missing, unreadable and readable tree files.
TreeFileRuns ==
    {Run(DefaultWardsFile, t, DefaultSchoolsFile, DefaultDemFile) :
        t \in [1..NumTreeFiles -> TreeFileChoices]}

SpeciesVals ==
    {StrVal(s) : s \in SeqsUpTo({" ", "a"}, 2)} \cup {NoneVal, NaNVal}

SpeciesFiles ==
    {File("ok", {"TreeName"}, fs) :
        fs \in SeqsUpTo({TreeFeature(1, v, AbsentVal) : v \in SpeciesVals}, MaxTrees)}
    \cup
    {File("ok", {"tree_type"}, fs) :
        fs \in SeqsUpTo({TreeFeature(1, AbsentVal, v) : v \in SpeciesVals}, MaxTrees)}
    \cup
    {File("ok", {"TreeName", "tree_type"}, fs) :
        fs \in SeqsUpTo({TreeFeature(1, v, StrVal(<<"b">>)) : v \in SpeciesVals},
                        MaxTrees)}
    \cup
    {File("ok", {}, fs) :
        fs \in SeqsUpTo({TreeFeature(1, AbsentVal, AbsentVal)}, MaxTrees)}

\* Species fields of every kind in one tree file.
SpeciesRuns ==
    {Run(DefaultWardsFile, <<f, MissingFile, MissingFile>>, DefaultSchoolsFile,
         DefaultDemFile) : f \in SpeciesFiles}

SchoolGeoms ==
    {Point(p) : p \in Coords}
        \cup {MultiPoint(<<q[1], q[2]>>) :
                 q \in {r \in Coords \X Coords : r[1] < r[2]}}
        \cup {Polygon(Ring(0, 2)), [type |-> "LineString", coords |-> Ring(0, 2)]}

\* School files of every kind.
SchoolRuns ==
    {Run(DefaultWardsFile, DefaultTreeFiles, s, DefaultDemFile) :
        s \in {CorruptFile}
                \cup {File("ok", {}, fs) :
                         fs \in SeqsUpTo({[geometry |-> g] : g \in SchoolGeoms},
                                         MaxSchools)}}

\* An unreadable boundary file.
WardFailureRuns ==
    {Run(CorruptFile, DefaultTreeFiles, DefaultSchoolsFile, DefaultDemFile)}

Runs ==
    GeometryRuns \cup IdRuns \cup RasterRuns \cup TreeFileRuns \cup SpeciesRuns
        \cup SchoolRuns \cup WardFailureRuns

Init ==
    /\ \E r \in Runs :
           /\ wardsFile = r.w
           /\ treeFiles = r.t
           /\ schoolsFile = r.s
           /\ demFile = r.d
    /\ pc = "wards"
    /\ err = NoErr
    /\ wards = <<>>
    /\ tf = 1
    /\ tree_layers = <<>>
    /\ trees = <<>>
    /\ schools = <<>>
    /\ dem_clipped = NoRaster
    /\ zi = 1
    /\ avg_elevs = <<>>
    /\ trees_with_ward = <<>>
    /\ schools_with_ward = <<>>
    /\ tree_counts = <<>>
    /\ ward_tree_dict = <<>>
    /\ school_count_dict = <<>>
    /\ wards_simpl = <<>>
    /\ written = NothingWritten

Next ==
    \/ LoadWards
    \/ LoadTreeFile
    \/ ConcatTrees
    \/ LoadSchools
    \/ ClipDEM
    \/ ZonalWard
    \/ SpatialJoins
    \/ Aggregate
    \/ AttachStats
    \/ SimplifyWards
    \/ WriteOutputs

Spec == Init /\ [][Next]_vars

\* ------------------------------------------------------------------ progress
StageOrder ==
    <<"wards", "trees", "concat", "schools", "clip", "zonal", "joins",
      "aggregate", "attach", "simplify", "write", "done">>

StageNo(p) == CHOOSE n \in DOMAIN StageOrder : StageOrder[n] = p

\* The stage the run is at, or was at when it aborted.
Progress == IF pc = "aborted" THEN StageNo(err.at) ELSE StageNo(pc)

\* The stage has run to its end.
Completed(stage) == Progress > StageNo(stage)

\* The exceptions that are the spec's LoadError.
LoadErrors == {"DataSourceError", "FileNotFoundError"}

\* ---------------------------------------------------------------------- C6
\* C6: after the Boundary Normalizer, ward_id values are pairwise distinct, on
\* the KGISWardNo path as on the row-index path.
C6_WardIdsUnique ==
    Completed("wards") =>
        \A i, j \in DOMAIN wards :
            i # j => wards[i].ward_id # wards[j].ward_id

\* ---------------------------------------------------------------------- C1
SchoolsWithin(g) == {k \in DOMAIN schools : Within(schools[k].geometry, g)}

\* C1: after a completed run every ward's num_schools is the number of loaded
\* school points strictly within its unsimplified polygon (0 when none is).
C1_NumSchoolsIsCountWithin ==
    pc = "done" =>
        \A i \in DOMAIN wards :
            /\ written.wards_geojson[i].num_schools >= 0
            /\ written.wards_geojson[i].num_schools =
                   Cardinality(SchoolsWithin(wards[i].geometry))

\* ------------------------------------------------------------------ C2, C9
\* The cells of the clipped raster under a ward that hold a measurement.
ValidCells(g) ==
    {c \in RasterCells(dem_clipped) :
        /\ Covered(c, Segs(g))
        /\ ~(dem_clipped.nodata.declared
             /\ CellValue(dem_clipped, c) = dem_clipped.nodata.v)}

RECURSIVE SumCells(_)
SumCells(cs) ==
    IF cs = {} THEN 0
    ELSE LET c == CHOOSE x \in cs : TRUE
         IN  CellValue(dem_clipped, c) + SumCells(cs \ {c})

\* C2: after the zonal statistics every ward's avg_elev is absent exactly when
\* no valid cell lies under the ward, and is otherwise the mean of exactly its
\* valid cells, whatever the raster's nodata setting.
C2_AvgElevIsMeanOfValidCells ==
    Completed("zonal") =>
        \A i \in DOMAIN wards :
            LET v == avg_elevs[wards[i].ward_id]
                valid == ValidCells(wards[i].geometry)
            IN  /\ (v.kind = "none") <=> (valid = {})
                /\ valid # {} =>
                       v.num * Cardinality(valid) = SumCells(valid) * v.den

\* C9: when the loop over the wards ends, avg_elevs has an entry for every
\* ward_id, the run was not aborted in the loop, and a ward whose mask raised
\* or left no valid cell has its avg_elev absent, never 0.
C9_NoValidCellsGivesAbsent ==
    /\ ~(pc = "aborted" /\ err.at = "zonal")
    /\ Completed("zonal") =>
           \A i \in DOMAIN wards :
               /\ wards[i].ward_id \in DOMAIN avg_elevs
               /\ (MaskRaises(dem_clipped, Segs(wards[i].geometry))
                   \/ ValidCells(wards[i].geometry) = {})
                      => avg_elevs[wards[i].ward_id].kind = "none"

\* ---------------------------------------------------------------------- C5
\* The species field of a raw tree feature: TreeName, else tree_type, else
\* none at all.
SpeciesField(file, feat) ==
    IF "TreeName" \in file.columns THEN feat.TreeName
    ELSE IF "tree_type" \in file.columns THEN feat.tree_type
    ELSE AbsentVal

\* C5: a tree whose species field is an empty string or a missing value has
\* tree_type "unknown"; any other tree has the trimmed species string, which is
\* not empty.
C5_EmptySpeciesIsUnknown ==
    Completed("concat") =>
        \A k \in DOMAIN trees :
            LET file == treeFiles[trees[k].src[1]]
                sp == SpeciesField(file, file.features[trees[k].src[2]])
            IN  IF sp.kind # "str" \/ sp.s = <<>>
                THEN trees[k].tree_type = Str_unknown
                ELSE /\ trees[k].tree_type = Strip(sp.s)
                     /\ trees[k].tree_type # <<>>

\* ---------------------------------------------------------------------- C8
\* C8: with an unreadable or empty boundary file the run aborts with LoadError
\* in the Boundary Normalizer, and no later stage gets the empty ward set.
C8_EmptyWardsAbortInNormalizer ==
    (wardsFile.status # "ok" \/ wardsFile.features = <<>>) =>
        \/ pc = "wards"
        \/ pc = "aborted" /\ err.at = "wards" /\ err.exc \in LoadErrors

\* ---------------------------------------------------------------------- C7
LoadedFiles == {f \in 1..NumTreeFiles : treeFiles[f].status = "ok"}

TreesAbort == pc = "aborted" /\ err.at = "trees"

SrcBefore(a, b) == a[1] < b[1] \/ (a[1] = b[1] /\ a[2] < b[2])

\* C7: a missing or unreadable tree file is passed over without aborting; the
\* load fails, with LoadError, exactly when no file loaded; otherwise the tree
\* set is the features of the loaded files, in list order.
C7_TreeLoadOutcome ==
    /\ (pc = "aborted" /\ err.at \in {"trees", "concat"}) =>
           (Progress = StageNo("trees") /\ tf > NumTreeFiles)
    /\ (TreesAbort \/ Completed("concat")) =>
           /\ TreesAbort <=> LoadedFiles = {}
           /\ TreesAbort => err.exc \in LoadErrors
           /\ ~TreesAbort =>
                  /\ Len(trees) =
                         SumSeq([f \in 1..NumTreeFiles |->
                                    IF f \in LoadedFiles
                                    THEN Len(treeFiles[f].features) ELSE 0])
                  /\ \A k \in DOMAIN trees :
                         /\ trees[k].src[1] \in LoadedFiles
                         /\ trees[k].src[2] \in
                                DOMAIN treeFiles[trees[k].src[1]].features
                         /\ trees[k].geometry =
                                treeFiles[trees[k].src[1]]
                                    .features[trees[k].src[2]].geometry
                  /\ \A k, l \in DOMAIN trees :
                         k < l => SrcBefore(trees[k].src, trees[l].src)

\* Two files loaded around one that did not, and the run went on.
C7_Witness ==
    /\ pc = "schools"
    /\ treeFiles[1].status = "ok" /\ treeFiles[1].features # <<>>
    /\ treeFiles[2].status = "corrupt"
    /\ treeFiles[3].status = "ok" /\ treeFiles[3].features # <<>>
    /\ Len(trees) = Len(treeFiles[1].features) + Len(treeFiles[3].features)

\* ---------------------------------------------------------------------- C3
TableTotal == SumSeq([i \in DOMAIN tree_counts |-> tree_counts[i].count])

\* Within the union of the ward polygons: in the interior of the region the
\* wards cover together.
TreesWithinUnion ==
    {k \in DOMAIN trees :
        \A n \in DOMAIN trees[k].geometry.coords :
            Interior(trees[k].geometry.coords[n], ClipShape(wards))}

TreeWardPairs ==
    {q \in (DOMAIN trees) \X (DOMAIN wards) :
        Within(trees[q[1]].geometry, wards[q[2]].geometry)}

\* C3 as claimed: the counts of the ward-by-tree-type table add up to the
\* number of tree points within the union of the ward polygons.
C3_TotalIsTreesWithinUnion ==
    Completed("aggregate") => TableTotal = Cardinality(TreesWithinUnion)

\* C3 as amended: the counts add up to the number of pairs of a tree point and
\* a ward whose polygon the point is strictly within, so a point in k wards
\* counts k times and a point strictly within no ward counts in no row.
C3_TotalIsTreeWardPairs ==
    Completed("aggregate") => TableTotal = Cardinality(TreeWardPairs)

\* A tree inside two wards and a tree outside every ward, after the counting.
C3_Witness ==
    /\ Completed("aggregate")
    /\ \E k \in DOMAIN trees : \E i, j \in DOMAIN wards :
           /\ i # j
           /\ Within(trees[k].geometry, wards[i].geometry)
           /\ Within(trees[k].geometry, wards[j].geometry)
    /\ \E k \in DOMAIN trees : k \notin TreesWithinUnion
    /\ TableTotal > Cardinality(TreesWithinUnion)

\* ---------------------------------------------------------------------- C4
WardTableTotal(table, wid) ==
    SumSeq([i \in DOMAIN table |->
               IF table[i].ward_id = wid THEN table[i].count ELSE 0])

TreeDistRoundTrip(ws, table) ==
    \A i \in DOMAIN ws :
        /\ DictSum(JsonLoads(ws[i].tree_dist)) = WardTableTotal(table, ws[i].ward_id)
        /\ (\A n \in DOMAIN table : table[n].ward_id # ws[i].ward_id) =>
               ws[i].tree_dist = <<>>

\* C4: for every ward the values of its decoded tree_dist add up to the counts
\* of its ward_id's rows in the ward-by-tree-type table; with no such row the
\* tree_dist is the empty object.
C4_TreeDistSumsToTable ==
    /\ Completed("attach") => TreeDistRoundTrip(wards, tree_counts)
    /\ pc = "done" =>
           TreeDistRoundTrip(written.wards_geojson, written.ward_tree_counts_csv)

\* A written ward with two species, one of them counted more than once, beside
\* a ward with no tree.
C4_Witness ==
    /\ pc = "done"
    /\ \E i, j \in DOMAIN written.wards_geojson :
           /\ Len(written.wards_geojson[i].tree_dist) > 1
           /\ DictSum(JsonLoads(written.wards_geojson[i].tree_dist)) > 2
           /\ written.wards_geojson[j].tree_dist = <<>>

\* --------------------------------------------------------------------- C10
WardAttrs(ws) ==
    [i \in DOMAIN ws |->
        [ward_id |-> ws[i].ward_id, ward_name |-> ws[i].ward_name,
         num_schools |-> ws[i].num_schools, avg_elev |-> ws[i].avg_elev,
         tree_dist |-> ws[i].tree_dist]]

SimplifiedFrom(out, ws) ==
    /\ DOMAIN out = DOMAIN ws
    /\ WardAttrs(out) = WardAttrs(ws)
    /\ \A i \in DOMAIN ws : out[i].geometry = Simplify(ws[i].geometry)

C10_Step ==
    /\ StageNo(pc) < StageNo("simplify") => wards_simpl' = <<>>
    /\ pc \in {"simplify", "write"} =>
           UNCHANGED <<wards, trees, schools, dem_clipped, avg_elevs,
                       trees_with_ward, schools_with_ward, tree_counts,
                       ward_tree_dict, school_count_dict>>
    /\ pc = "simplify" => SimplifiedFrom(wards_simpl', wards)
    /\ pc = "write" =>
           /\ SimplifiedFrom(written'.wards_geojson, wards)
           /\ written'.trees_geojson = trees
           /\ written'.schools_geojson = schools
           /\ written'.ward_stats_csv = WardStats(wards)

\* C10: simplification comes after the clip, the zonal statistics, the joins
\* and the aggregations, changes only the geometry of the copy that is written
\* to the ward file, and leaves the wards used for the statistics, the points
\* and every per-ward attribute as they were; trees and schools are written as
\* loaded.
C10_SimplifyTouchesOnlyTheCopy == [][C10_Step]_vars

\* A written ward whose geometry simplification changed.
C10_Witness ==
    /\ pc = "done"
    /\ \E i \in DOMAIN wards :
           written.wards_geojson[i].geometry # wards[i].geometry
    /\ written.trees_geojson # <<>>
    /\ written.schools_geojson # <<>>

====
